---- MODULE Spec2Model ----
(***************************************************************************)
(* State-machine model of the RFB (VNC) client widget of                   *)
(* src/src/agent/vnc_widget.py: the caller's context (connect_to_vnc,      *)
(* disconnect_vnc, paintEvent, key and pointer events) and the background  *)
(* protocol threads started by connect_to_vnc (_vnc_thread and the message *)
(* handlers it calls).  Every thread reads the widget's fields (self.sock, *)
(* self.is_running, self.width, self.height, self.image) each time it uses *)
(* them, as the code does.                                                 *)
(* Two smaller components are modelled beside it, each under its own       *)
(* specification: VncConnectionThread.run of src/src/agent/main.py          *)
(* (SpecVct) and the DockerManager thread with the window that drives it,  *)
(* src/src/orchestrator/main.py (SpecDocker).                              *)
(***************************************************************************)
EXTENDS Integers, Sequences, FiniteSets, TLC

\* ------------------------------------------------------------------ bounds
\* connect_to_vnc calls in one behaviour (each creates one socket)
MaxConnects == 2
\* of these, the calls that open the transport and start a thread, in Spec
MaxStarts == 1
\* server-to-client messages read by the update loops in one behaviour
MaxMsgs == 2
\* rectangles in one FramebufferUpdate
MaxRects == 2
\* framebuffer width and height announced in ServerInit: 0..MaxDim
MaxDim == 1
\* rectangle origin coordinates: 0..MaxCoord
MaxCoord == 1
\* rectangle width and height: 0..MaxExt
MaxExt == 2
\* security types offered by the server: at most MaxSecTypes
MaxSecTypes == 2
\* pixel values the server sends: 1..NColours (0 is the initial fill)
NColours == 1
\* counts and lengths of palette entries, cut text and desktop name: 0..MaxLen
MaxLen == 1
\* passwords given to _get_des_key: 0..MaxPwLen characters
MaxPwLen == 9
\* pointer positions run from -MaxSurface to 2 * MaxSurface on a presentation
\* surface of 1..MaxSurface pixels, over framebuffers of 0..MaxFb pixels
MaxSurface == 3
MaxFb == 3

\* ------------------------------------------------------- program constants
\* security type the client supports (VNC Authentication)
VncAuth == 2
\* the only encoding the client decodes
RawEncoding == 0

\* scenario files the operator can select: 1..MaxFiles
MaxFiles == 2
\* teams in a scenario file: 0..MaxTeams
MaxTeams == 2
\* scenario_file_to_start = None
NoFile == 0
Files == 1..MaxFiles

\* VncConnectionThread.run: attempts of each of its two loops
max_retries == 10
\* host_port = None
NoPort == -1
\* host ports Docker may have mapped to the container's 5901/tcp
HostPorts == {5901, 32768}

Sockets == 1..MaxConnects
Threads == 1..MaxConnects
\* the caller's context, as a writer on the transport
Caller == 0
NoSock == 0
NoThread == 0

SecTypeIds == {1, VncAuth, 16}
Encodings == {RawEncoding, 1}
StatusVals == {0, 1}
\* server message types: 0..3 are handled, 4 stands for every other value
MsgTypes == 0..4
\* the bits per pixel of the pixel formats the servers announce in ServerInit
ServerBpps == {16, 32}

VARIABLES
    sock,        \* self.sock: NoSock (None) or a socket
    sockState,   \* each socket: "unused", "open" or "closed"
    thread,      \* self.thread: NoThread (None) or a thread
    is_running,  \* self.is_running
    width,       \* self.width
    height,      \* self.height
    image,       \* self.image: [w, h, px]
    cpc,         \* the caller's position: "idle", "joining", "sending"
    lastOp,      \* the last lifecycle call that returned ("connect_failed": it raised)
    joinedAt,    \* the joined thread's position when disconnect_vnc began:
                 \* "recv" (inside a _recv of the main loop), "other", or
                 \* "none" (no join under way)
    pc,          \* each thread's position in _vnc_thread
    err,         \* the exception that ended each thread, or "none"
    last,        \* what each thread's most recent _recv returned
    nrects,      \* rectangles left in the current FramebufferUpdate
    rect,        \* the rectangle being decoded: [x, y, w, h]
    dlen,        \* whole pixels in the payload _recv returned
    pix,         \* index of the next pixel of the rectangle
    msgs,        \* server messages read so far
    sending,     \* writers inside sendall with part of a message written
    crossed,     \* the thread read, wrote or closed a socket of a later connect
    dirty,       \* pixels were written for a message not yet fully applied
    tornPaint,   \* the last paintEvent drew the image while it was dirty
    setpx,       \* the last pixel step: the setPixel target, or <<>> (skipped)
    wirepx,      \* the last pixel step: the 4 bytes the server sent for the pixel
    wrote,       \* the bytes of the last message each thread's _send has written
    nego,        \* the type bytes of the messages each thread has written after
                 \* ClientInit, up to its first FramebufferUpdateRequest
    reqs,        \* per socket: the update requests written on it so far, as
                 \* NoteRequest sums them up
    committed,   \* self.image as it was when the last message was fully applied
    bpp,         \* each thread's bpp (line 112), the bits per pixel of the server's
                 \* format, from ServerInit until the thread's first update
                 \* request is written (the code reads it last at line 119)
    inj,         \* the last input call of the caller and its outcome
    desync,      \* the thread left a message at a read timeout after reading
                 \* its type byte: the unread rest of it is still on the stream
    vct,         \* a VncConnectionThread (src/src/agent/main.py): its position
                 \* in run, i, host_port, the terminal signals it has emitted
                 \* and the number of log_message signals
    dm,          \* the DockerManager (src/src/orchestrator/main.py): its fields,
                 \* its position in run, and in _start_scenario_containers the
                 \* file it was given, the number of teams of the scenario and
                 \* the team it is at
    win,         \* the OrchestratorWindow: its two buttons, the DockerManager
                 \* signals queued for its slots, and the start request it has
                 \* made that no signal of a start has answered yet
    arg,         \* the argument of a helper called on its own (SpecCodec)
    res          \* and what the helper returned

vars == <<sock, sockState, thread, is_running, width, height, image, cpc,
          lastOp, joinedAt, pc, err, last, nrects, rect, dlen, pix, msgs,
          sending, crossed, dirty, tornPaint, setpx, wirepx, wrote, nego,
          reqs, committed, bpp, inj, desync, vct, dm, win, arg, res>>

widgetVars == <<sock, sockState, thread, is_running>>
fbVars == <<width, height, image, dirty>>
callerVars == <<cpc, lastOp, joinedAt>>
rectVars == <<nrects, rect, dlen, pix>>
codecVars == <<arg, res>>

\* ----------------------------------------------------------------- helpers
NoLast == [k |-> "none", v |-> 0]
NoRect == [x |-> 0, y |-> 0, w |-> 0, h |-> 0]

Coords(w, h) == (0..(w - 1)) \X (0..(h - 1))

\* the value of a pixel of QImage(1, 1) that was never filled or set: four
\* bytes that are no colour a fill or a setPixel leaves behind
Uninit == <<-1, -1, -1, -1>>

\* a 32-bit colour value is written as its four bytes <<a, r, g, b>>, the
\* bits 24-31, 16-23, 8-15 and 0-7
Argb(a, r, g, b) == <<a, r, g, b>>

\* what a Format_RGB32 image stores for the value v given to fill or setPixel:
\* the alpha byte is forced to 255
Rgb32(v) == Argb(255, v[2], v[3], v[4])

\* QImage(w, h) after fill(0)
BlankImage(w, h) ==
    [w |-> w, h |-> h, px |-> [c \in Coords(w, h) |-> Rgb32(Argb(0, 0, 0, 0))]]

Alive(t) == t # NoThread /\ pc[t] \notin {"unborn", "dead"}

SockOpen == sock # NoSock /\ sockState[sock] = "open"

NumSockets == Cardinality({s \in Sockets : sockState[s] # "unused"})

NumStarted == Cardinality({t \in Threads : pc[t] # "unborn"})

\* the socket object self.sock loses its last reference when the field is
\* reassigned: CPython finalizes it, which closes it
Dropped(st) == IF sock # NoSock THEN [st EXCEPT ![sock] = "closed"] ELSE st

\* thread t uses self.sock: socket s was opened by the s-th connect_to_vnc and
\* thread t was started by the t-th
Touch(t) == [crossed EXCEPT ![t] = @ \/ sock > t]

\* ------------------------------------------- the protocol thread: messages
\* struct format H: 16 bits, big-endian
Pack16(n) == <<n \div 256, n % 256>>

\* line 127: struct.pack('>BBHi', 2, 0, 1, 0)
SetEncodingsMsg == <<2, 0>> \o Pack16(1) \o <<0, 0, 0, 0>>

\* lines 132, 155, 191: struct.pack('>BBHHHH', 3, incremental, 0, 0, w, h)
\* what is known of the update requests written on a socket, after one more
\* with the incremental flag `flag`: "none" (no request yet), "first" (one
\* request, flag 0), "more" (a first request with flag 0, then requests with
\* flag 1), "other" (anything else)
NoteRequest(sofar, flag) ==
    CASE sofar = "none" /\ flag = 0 -> "first"
      [] sofar \in {"first", "more"} /\ flag = 1 -> "more"
      [] OTHER -> "other"

Pack32(n) ==
    <<n \div 16777216, (n \div 65536) % 256, (n \div 256) % 256, n % 256>>

\* line 300: struct.pack('>BBxxI', 4, down_flag, keysym)
KeyEventMsg(down_flag, keysym) == <<4, down_flag, 0, 0>> \o Pack32(keysym)

\* the request with the incremental flag always 0
UpdateRequestFull(incremental, w, h) ==
    <<3, 0>> \o Pack16(0) \o Pack16(0) \o Pack16(w) \o Pack16(h)

UpdateRequest(incremental, w, h) ==
    <<3, incremental>> \o Pack16(0) \o Pack16(0) \o Pack16(w) \o Pack16(h)

\* the version line of an RFB 3.8 server: "RFB 003.008\n"
VersionLine == <<82, 70, 66, 32, 48, 48, 51, 46, 48, 48, 56, 10>>

\* 12 bytes that are not UTF-8
UndecodableLine == [VersionLine EXCEPT ![1] = 255]

\* bytes.decode() succeeds (the lines of the model are ASCII or hold byte 255)
Decodable(bytes) == \A i \in 1..Len(bytes) : bytes[i] < 128

\* the characters str.strip() removes
Whitespace == {9, 10, 11, 12, 13, 28, 29, 30, 31, 32}

RECURSIVE LStrip(_)
LStrip(str) ==
    IF str # <<>> /\ Head(str) \in Whitespace THEN LStrip(Tail(str)) ELSE str

RECURSIVE RStrip(_)
RStrip(str) ==
    IF str # <<>> /\ str[Len(str)] \in Whitespace
    THEN RStrip(SubSeq(str, 1, Len(str) - 1))
    ELSE str

\* str.strip()
Strip(str) == RStrip(LStrip(str))

\* the 16-byte challenge of the model
Challenge == [i \in 1..16 |-> i]

\* PKCS5 padding, as des applies it with padding=True: 1 to 8 bytes, a whole
\* block when the length is a multiple of 8
Pkcs5Pad(m) == m \o [i \in 1..(8 - (Len(m) % 8)) |-> 8 - (Len(m) % 8)]

\* the DES ciphertext of one 8-byte block under the key of _get_des_key
DesBlock(block) == [des |-> block]

\* des.DesKey(key).encrypt(m, padding=...) without an initial vector: each
\* 8-byte block of the (padded) message is encrypted on its own
Encrypt(m, padding) ==
    LET p == IF padding THEN Pkcs5Pad(m) ELSE m
    IN  [i \in 1..(Len(p) \div 8) |-> DesBlock(SubSeq(p, 8 * (i - 1) + 1, 8 * i))]

\* the 4 bytes of the c-th pixel value the server sends
WirePixel(c) == <<c, 2 * c, 3 * c, 4 * c>>

\* lines 208-209: b, g, r, a = pixel; (a << 24) | (r << 16) | (g << 8) | b
PixelColor(pixel) == Argb(pixel[4], pixel[3], pixel[2], pixel[1])

\* --------------------------------------------- the protocol thread: tables
\* positions of _vnc_thread at a _recv call, before the main loop
HandshakeRecvPcs ==
    {"recv_version", "recv_nsec", "recv_sectypes", "recv_challenge",
     "recv_status", "recv_wh", "recv_pf", "recv_max", "recv_shift", "recv_pad",
     "recv_namelen", "recv_name"}

\* positions at a _recv call inside the main loop's try block
LoopRecvPcs ==
    {"recv_type", "fbu_pad", "fbu_nrects", "rect_hdr", "raw_data", "cme_pad",
     "cme_first", "cme_count", "cme_data", "cut_pad", "cut_len", "cut_text"}

RecvPcs == HandshakeRecvPcs \cup LoopRecvPcs

\* positions at a _send call
SendPcs ==
    {"send_version", "send_sel", "send_response", "send_clientinit",
     "send_setenc", "send_fbreq", "send_increq", "send_keepalive"}

\* positions inside the main loop (lines 136-156 and the handlers)
LoopPcs ==
    LoopRecvPcs \cup
    {"loop_test", "raw_pixels", "fbu_done", "send_increq", "keepalive",
     "send_keepalive"}

\* positions before the main loop (lines 79-133)
HandshakePcs ==
    HandshakeRecvPcs \cup
    {"send_version", "send_sel", "send_response", "send_clientinit",
     "make_image", "send_setenc", "send_fbreq"}

Go(p) == [pc |-> p, err |-> "none"]

\* a failure that starts the handshake again instead of ending the thread
RaiseRetry(e) == [pc |-> "recv_version", err |-> e]

Raise(e) == [pc |-> "finally", err |-> e]

\* the security check taken for "the server offered something"
SecurityAcceptedAny(types) == types # {}

\* line 92: 2 in sec_types
SecurityAccepted(types) == VncAuth \in types

\* the status check left out: every status counts as success
AuthOkAlways(status) == TRUE

\* the status check with the comparison inverted
AuthOkInverted(status) == status # 0

\* line 103: status == 0
AuthOk(status) == status = 0

\* the encoding check left out: every rectangle is decoded as Raw
IsRawAlways(encoding) == TRUE

\* line 178: encoding == 0
IsRaw(encoding) == encoding = RawEncoding

\* line 201: the pixel lies outside the framebuffer and is skipped
Clipped(px, py, w, h) == px >= w \/ py >= h

\* the number of bytes (here: items) the _recv at thread t's position asks for
RecvLen(t) ==
    CASE pc[t] = "recv_sectypes" -> last[t].v
      [] pc[t] = "raw_data" -> rect[t].w * rect[t].h
      [] pc[t] \in {"cme_data", "cut_text"} -> last[t].v
      [] OTHER -> 1

\* what the server may send for the _recv at position p asking for n
ServerVals(p, n) ==
    CASE p = "recv_version" -> {VersionLine, UndecodableLine}
      [] p = "recv_nsec" -> 0..MaxSecTypes
      [] p = "recv_sectypes" ->
            {S \in SUBSET SecTypeIds : 1 <= Cardinality(S) /\ Cardinality(S) <= n}
      [] p = "recv_challenge" -> {Challenge}
      [] p = "recv_status" -> StatusVals
      [] p = "recv_wh" -> (0..MaxDim) \X (0..MaxDim)
      [] p = "recv_pf" -> ServerBpps
      [] p = "recv_namelen" -> 0..MaxLen
      [] p = "recv_name" -> {"name", "undecodable"}
      [] p = "cme_data" -> {"palette"}
      [] p = "cut_text" -> {"text"}
      [] p = "recv_type" -> MsgTypes
      [] p = "fbu_nrects" -> 0..MaxRects
      [] p = "rect_hdr" ->
            [x : 0..MaxCoord, y : 0..MaxCoord, w : 0..MaxExt, h : 0..MaxExt,
             enc : Encodings]
      [] p = "raw_data" -> {n}
      [] p \in {"cme_count", "cut_len"} -> 0..MaxLen
      [] OTHER -> {0}

\* positions where data shorter than asked for makes the caller of _recv raise
\* (IndexError on [0], struct.error in struct.unpack)
ShortRaises(p) ==
    p \in {"recv_nsec", "recv_status", "recv_wh", "recv_pf", "recv_max",
           "recv_shift", "recv_namelen", "recv_type", "fbu_nrects", "rect_hdr",
           "cme_first", "cme_count", "cut_len"}

\* what a short _recv hands to a caller that goes on with it
ShortVals(p, n) ==
    CASE p = "recv_sectypes" -> {S \in SUBSET SecTypeIds : Cardinality(S) < n}
      [] p = "raw_data" -> 0..(n - 1)
      [] p = "recv_version" -> {SubSeq(VersionLine, 1, 4)}
      [] p = "recv_challenge" -> {SubSeq(Challenge, 1, 4)}
      [] p \in {"recv_name", "cme_data", "cut_text"} -> {"short"}
      [] OTHER -> {0}

\* where _vnc_thread goes with the value v its _recv at position p returned
AfterRecv(p, v) ==
    CASE p = "recv_version" ->
            IF Decodable(v) THEN Go("send_version") ELSE Raise("UnicodeDecodeError")
      [] p = "recv_nsec" -> Go("recv_sectypes")
      [] p = "recv_sectypes" ->
            IF SecurityAccepted(v) THEN Go("send_sel") ELSE Raise("UnsupportedSecurity")
      [] p = "recv_challenge" -> Go("send_response")
      [] p = "recv_status" ->
            IF AuthOk(v) THEN Go("send_clientinit") ELSE Raise("AuthenticationFailed")
      [] p = "recv_wh" -> Go("recv_pf")
      [] p = "recv_pf" -> Go("recv_max")
      [] p = "recv_max" -> Go("recv_shift")
      [] p = "recv_shift" -> Go("recv_pad")
      [] p = "recv_pad" -> Go("recv_namelen")
      [] p = "recv_namelen" -> IF v > 0 THEN Go("recv_name") ELSE Go("make_image")
      [] p = "recv_name" ->
            IF v = "undecodable" THEN Raise("UnicodeDecodeError") ELSE Go("make_image")
      [] p = "recv_type" ->
            CASE v = 0 -> Go("fbu_pad")
              [] v = 1 -> Go("cme_pad")
              [] v = 3 -> Go("cut_pad")
              [] OTHER -> Go("loop_test")
      [] p = "fbu_pad" -> Go("fbu_nrects")
      [] p = "fbu_nrects" -> IF v > 0 THEN Go("rect_hdr") ELSE Go("fbu_done")
      [] p = "rect_hdr" ->
            IF IsRaw(v.enc) THEN Go("raw_data") ELSE Raise("UnsupportedEncoding")
      [] p = "raw_data" -> Go("raw_pixels")
      [] p = "cme_pad" -> Go("cme_first")
      [] p = "cme_first" -> Go("cme_count")
      [] p = "cme_count" -> Go("cme_data")
      [] p = "cme_data" -> Go("loop_test")
      [] p = "cut_pad" -> Go("cut_len")
      [] p = "cut_len" -> Go("cut_text")
      [] p = "cut_text" -> Go("loop_test")

\* the bytes thread t hands to the _send at its position
MsgAt(t) ==
    CASE pc[t] = "send_version" -> Strip(last[t].v)
      [] pc[t] = "send_sel" -> <<2>>
      [] pc[t] = "send_response" -> Encrypt(last[t].v, TRUE)
      [] pc[t] = "send_clientinit" -> <<1>>
      [] pc[t] = "send_setenc" -> SetEncodingsMsg
      [] pc[t] = "send_fbreq" -> UpdateRequest(0, width, height)
      [] pc[t] \in {"send_increq", "send_keepalive"} ->
            UpdateRequest(1, width, height)

\* where _vnc_thread goes after the _send at position p
AfterSend(p) ==
    CASE p = "send_version" -> "recv_nsec"
      [] p = "send_sel" -> "recv_challenge"
      [] p = "send_response" -> "recv_status"
      [] p = "send_clientinit" -> "recv_wh"
      [] p = "send_setenc" -> "send_fbreq"
      [] p = "send_fbreq" -> "loop_test"
      [] p = "send_increq" -> "loop_test"
      [] p = "send_keepalive" -> "loop_test"

\* -------------------------------------------------------------------- Init
\* no helper has been called on its own
NoArg == [f |-> "none"]

\* no input event has been handled
NoInput == [ev |-> "none", key |-> 0, down |-> 0, out |-> "none", msg |-> <<>>]

\* the widget after __init__
InitWidget ==
    /\ sock = NoSock
    /\ sockState = [s \in Sockets |-> "unused"]
    /\ thread = NoThread
    /\ is_running = FALSE
    /\ width = 0
    /\ height = 0
    /\ image = [w |-> 1, h |-> 1, px |-> [c \in Coords(1, 1) |-> Uninit]]
    /\ dirty = FALSE
    /\ cpc = "idle"
    /\ lastOp = "none"
    /\ joinedAt = "none"
    /\ pc = [t \in Threads |-> "unborn"]
    /\ err = [t \in Threads |-> "none"]
    /\ last = [t \in Threads |-> NoLast]
    /\ nrects = [t \in Threads |-> 0]
    /\ rect = [t \in Threads |-> NoRect]
    /\ dlen = [t \in Threads |-> 0]
    /\ pix = [t \in Threads |-> 0]
    /\ msgs = 0
    /\ sending = {}
    /\ crossed = [t \in Threads |-> FALSE]
    /\ tornPaint = FALSE
    /\ setpx = <<>>
    /\ wirepx = <<>>
    /\ wrote = [t \in Threads |-> <<>>]
    /\ nego = [t \in Threads |-> <<>>]
    /\ reqs = [s \in Sockets |-> "none"]
    /\ committed = image
    /\ bpp = [t \in Threads |-> 0]
    /\ inj = NoInput
    /\ desync = [t \in Threads |-> FALSE]

\* VncConnectionThread.__init__: the thread is constructed, run has not begun
InitVct ==
    [pc |-> "idle", i |-> 0, host_port |-> NoPort, signals |-> <<>>, logs |-> 0]

\* DockerManager.__init__ (lines 20-26)
InitDm ==
    [pc |-> "created", docker_client |-> FALSE, active_containers |-> {},
     scenario_file_to_start |-> NoFile, should_stop_scenario |-> FALSE,
     is_running |-> TRUE, file |-> NoFile, teams |-> 0, team |-> 0]

\* OrchestratorWindow.__init__ (lines 188-190, 224-231)
InitWin ==
    [start_enabled |-> TRUE, stop_enabled |-> FALSE, queue |-> <<>>,
     asked |-> NoFile, closed |-> FALSE]

Init ==
    /\ InitWidget
    /\ vct = InitVct
    /\ dm = InitDm
    /\ win = InitWin
    /\ arg = NoArg
    /\ res = <<>>

\* ------------------------------------------------------ the caller: connect
\* connect_to_vnc, the transport opens: the thread is started at once
\* (starts: how many threads the behaviour may start)
ConnectOk(starts) ==
    /\ cpc = "idle"
    /\ NumSockets < MaxConnects
    /\ NumStarted < starts
    /\ LET new == NumSockets + 1 IN
        /\ sockState' = [Dropped(sockState) EXCEPT ![new] = "open"]
        /\ sock' = new
        /\ is_running' = TRUE
        /\ thread' = new
        /\ pc' = [pc EXCEPT ![new] = "recv_version"]
    /\ lastOp' = "connect"
    /\ UNCHANGED <<fbVars, cpc, joinedAt, err, last, rectVars, msgs, sending,
                   crossed, tornPaint, setpx,
                   wirepx, wrote, nego, codecVars, vct, dm, win, desync,
                   reqs, committed, bpp, inj>>

\* connect_to_vnc with the flag set before sock.connect is tried
ConnectFailRunning ==
    /\ cpc = "idle"
    /\ NumSockets < MaxConnects
    /\ LET new == NumSockets + 1 IN
        /\ sockState' = [Dropped(sockState) EXCEPT ![new] = "closed"]
        /\ sock' = new
    /\ is_running' = TRUE
    /\ lastOp' = "connect_failed"
    /\ UNCHANGED <<thread, fbVars, cpc, joinedAt, pc, err, last,
                   rectVars, msgs, sending, crossed, tornPaint, setpx,
                   wirepx, wrote, nego, codecVars, vct, dm, win, desync,
                   reqs, committed, bpp, inj>>

\* connect_to_vnc, sock.connect raises (refused, unreachable, timed out)
ConnectFail ==
    /\ cpc = "idle"
    /\ NumSockets < MaxConnects
    /\ LET new == NumSockets + 1 IN
        /\ sockState' = [Dropped(sockState) EXCEPT ![new] = "closed"]
        /\ sock' = new
    /\ lastOp' = "connect_failed"
    /\ UNCHANGED <<thread, is_running, fbVars, cpc, joinedAt, pc, err, last,
                   rectVars, msgs, sending, crossed, tornPaint, setpx,
                   wirepx, wrote, nego, codecVars, vct, dm, win, desync,
                   reqs, committed, bpp, inj>>

\* connect_to_vnc, socket.socket() itself raises: self.sock is not reassigned
\* and the handler closes whatever it still refers to
ConnectFailCreate ==
    /\ cpc = "idle"
    /\ sockState' = Dropped(sockState)
    /\ lastOp' = "connect_failed"
    /\ UNCHANGED <<sock, thread, is_running, fbVars, cpc, joinedAt, pc, err,
                   last, rectVars, msgs, sending, crossed, tornPaint, setpx,
                   wirepx, wrote, nego, codecVars, vct, dm, win, desync,
                   reqs, committed, bpp, inj>>

\* --------------------------------------------------- the caller: disconnect
\* the state disconnect_vnc leaves behind
Disconnected == ~is_running /\ sock = NoSock /\ thread = NoThread

\* disconnect_vnc up to the join: clear the flag, close and forget the socket,
\* then either join the live thread or drop the reference at once
DisconnectBegin ==
    /\ cpc = "idle"
    /\ is_running' = FALSE
    /\ sockState' = Dropped(sockState)
    /\ sock' = NoSock
    /\ IF Alive(thread)
       THEN /\ cpc' = "joining"
            /\ joinedAt' = IF pc[thread] \in LoopRecvPcs THEN "recv" ELSE "other"
            /\ UNCHANGED <<thread, lastOp>>
       ELSE /\ thread' = NoThread
            /\ lastOp' = IF Disconnected THEN "redisconnect" ELSE "disconnect"
            /\ UNCHANGED <<cpc, joinedAt>>
    /\ UNCHANGED <<fbVars, pc, err, last, rectVars, msgs, sending, crossed, tornPaint, setpx,
                   wirepx, wrote, nego, codecVars, vct, dm, win, desync,
                   reqs, committed, bpp, inj>>

\* thread.join(timeout=1.0) returns because the thread has ended
JoinReturn ==
    /\ cpc = "joining"
    /\ ~Alive(thread)
    /\ thread' = NoThread
    /\ cpc' = "idle"
    /\ lastOp' = "disconnect"
    /\ joinedAt' = "none"
    /\ UNCHANGED <<sock, sockState, is_running, fbVars, pc, err, last,
                   rectVars, msgs, sending, crossed, tornPaint, setpx,
                   wirepx, wrote, nego, codecVars, vct, dm, win, desync,
                   reqs, committed, bpp, inj>>

\* disconnect_vnc keeping the reference to a thread the join did not end
JoinTimeoutKeepsThread ==
    /\ cpc = "joining"
    /\ Alive(thread)
    /\ cpc' = "idle"
    /\ lastOp' = "disconnect"
    /\ joinedAt' = "none"
    /\ UNCHANGED <<sock, sockState, thread, is_running, fbVars, pc, err, last,
                   rectVars, msgs, sending, crossed, tornPaint, setpx,
                   wirepx, wrote, nego, codecVars, vct, dm, win, desync,
                   reqs, committed, bpp, inj>>

\* thread.join(timeout=1.0) returns because the second has elapsed
JoinTimeout ==
    /\ cpc = "joining"
    /\ Alive(thread)
    /\ thread' = NoThread
    /\ cpc' = "idle"
    /\ lastOp' = "disconnect"
    /\ joinedAt' = "none"
    /\ UNCHANGED <<sock, sockState, is_running, fbVars, pc, err, last,
                   rectVars, msgs, sending, crossed, tornPaint, setpx,
                   wirepx, wrote, nego, codecVars, vct, dm, win, desync,
                   reqs, committed, bpp, inj>>

\* ------------------------------------------------- the caller: paint, input
\* paintEvent draws self.image as it is at that moment
PaintEvent ==
    /\ cpc = "idle"
    /\ tornPaint' = dirty
    /\ UNCHANGED <<widgetVars, fbVars, callerVars, pc, err, last, rectVars,
                   msgs, sending, crossed, setpx,
                   wirepx, wrote, nego, codecVars, vct, dm, win, desync,
                   reqs, committed, bpp, inj>>

\* _send_pointer_event: past the guard it calls self.width(), but __init__ and
\* ServerInit bind self.width to an int, so the call raises TypeError, which
\* the handler's except clause swallows before anything is written
\* (obs: whether the behaviour keeps the outcome of input calls in inj)
PointerEvent(obs) ==
    /\ cpc = "idle"
    /\ inj' = IF obs
              THEN [NoInput EXCEPT !.ev = "pointer",
                        !.out = IF is_running /\ sock # NoSock
                                THEN "TypeError" ELSE "returned"]
              ELSE inj
    /\ UNCHANGED <<widgetVars, fbVars, callerVars, pc, err, last, rectVars,
                   msgs, sending, crossed, tornPaint, setpx, wirepx, wrote,
                   nego, codecVars, vct, dm, win, desync, reqs, committed, bpp>>

Key_Escape == 16777216
Key_Tab == 16777217
Key_Backspace == 16777219
Key_Return == 16777220
Key_Enter == 16777221
Key_Delete == 16777223
Key_Home == 16777232
Key_End == 16777233
Key_Left == 16777234
Key_Up == 16777235
Key_Right == 16777236
Key_Down == 16777237
Key_PageUp == 16777238
Key_PageDown == 16777239
Key_Shift == 16777248
Key_Control == 16777249
Key_Alt == 16777251
Key_F1 == 16777264
Key_F12 == 16777275
Key_Space == 32

key_map ==
    (Key_Return :> 65293) @@ (Key_Enter :> 65293) @@ (Key_Backspace :> 65288) @@
    (Key_Tab :> 65289) @@ (Key_Escape :> 65307) @@ (Key_Space :> 32) @@
    (Key_Delete :> 65535) @@ (Key_Home :> 65360) @@ (Key_End :> 65367) @@
    (Key_PageUp :> 65365) @@ (Key_PageDown :> 65366) @@ (Key_Left :> 65361) @@
    (Key_Up :> 65362) @@ (Key_Right :> 65363) @@ (Key_Down :> 65364) @@
    (Key_Shift :> 65505) @@ (Key_Control :> 65507) @@ (Key_Alt :> 65513)

\* the conversion without the function keys
QtKeyToKeysymNoFKeys(qt_key) ==
    IF qt_key \in DOMAIN key_map THEN key_map[qt_key]
    ELSE IF 32 <= qt_key /\ qt_key <= 126 THEN qt_key
    ELSE qt_key

\* _qt_key_to_keysym
QtKeyToKeysym(qt_key) ==
    IF qt_key \in DOMAIN key_map THEN key_map[qt_key]
    ELSE IF 32 <= qt_key /\ qt_key <= 126 THEN qt_key
    ELSE IF Key_F1 <= qt_key /\ qt_key <= Key_F12 THEN 65470 + (qt_key - Key_F1)
    ELSE qt_key

\* the keys pressed in the model: no key, a printable one, a named one, a
\* function key and an unmapped one
SampleKeys == {0, 65, Key_Return, Key_F1 + 1, 16777252}

\* _send_key_event passes its guard and has a nonzero keysym to send
KeyWanted(key) == is_running /\ sock # NoSock /\ QtKeyToKeysym(key) # 0

\* _send_key_event returns without sending: at its guard, or because the
\* keysym is 0
KeySkip(keys, obs) ==
    /\ cpc = "idle"
    /\ \E key \in keys, down_flag \in {0, 1} :
        /\ ~KeyWanted(key)
        /\ inj' = IF obs
                  THEN [NoInput EXCEPT !.ev = "key", !.key = key,
                            !.down = down_flag,
                            !.out = IF is_running /\ sock # NoSock
                                    THEN "no_keysym" ELSE "returned"]
                  ELSE inj
    /\ UNCHANGED <<widgetVars, fbVars, callerVars, pc, err, last, rectVars,
                   msgs, sending, crossed, tornPaint, setpx, wirepx, wrote,
                   nego, codecVars, vct, dm, win, desync, reqs, committed, bpp>>

\* sendall of the KeyEvent message gets only part of it written so far
KeyPart(keys, obs) ==
    /\ cpc = "idle"
    /\ \E key \in keys, down_flag \in {0, 1} :
        /\ KeyWanted(key)
        /\ inj' = IF obs
                  THEN [NoInput EXCEPT !.ev = "key", !.key = key,
                            !.down = down_flag, !.out = "sending"]
                  ELSE inj
    /\ SockOpen
    /\ cpc' = "sending"
    /\ sending' = sending \cup {Caller}
    /\ UNCHANGED <<widgetVars, fbVars, lastOp, joinedAt, pc, err, last,
                   rectVars, msgs, crossed, tornPaint, setpx,
                   wirepx, wrote, nego, codecVars, vct, dm, win, desync,
                   reqs, committed, bpp>>

\* the input call whose sendall the caller is in, or a new one with a keysym
\* to send
KeyInFlight(keys) ==
    IF cpc = "sending" THEN {inj}
    ELSE {[NoInput EXCEPT !.ev = "key", !.key = key, !.down = down_flag,
               !.out = "sending"] :
            key \in {k \in keys : cpc = "idle" /\ KeyWanted(k)},
            down_flag \in {0, 1}}

\* sendall of the KeyEvent message writes what is left of it (all of it when
\* nothing was written yet)
KeyDone(keys, obs) ==
    /\ \E call \in KeyInFlight(keys) :
        inj' = IF obs
               THEN [call EXCEPT !.out = "written",
                        !.msg = KeyEventMsg(call.down, QtKeyToKeysym(call.key))]
               ELSE inj
    /\ SockOpen
    /\ cpc' = "idle"
    /\ sending' = sending \ {Caller}
    /\ UNCHANGED <<widgetVars, fbVars, lastOp, joinedAt, pc, err, last,
                   rectVars, msgs, crossed, tornPaint, setpx,
                   wirepx, wrote, nego, codecVars, vct, dm, win, desync,
                   reqs, committed, bpp>>

\* sendall raises in _send (no socket, closed socket, reset, timeout): _send
\* clears the flag and _send_key_event swallows the exception
KeyError(keys, obs) ==
    /\ \E call \in KeyInFlight(keys) :
        inj' = IF obs THEN [call EXCEPT !.out = "send_failed"] ELSE inj
    /\ cpc' = "idle"
    /\ is_running' = FALSE
    /\ sending' = sending \ {Caller}
    /\ UNCHANGED <<sock, sockState, thread, fbVars, lastOp, joinedAt, pc,
                   err, last, rectVars, msgs, crossed, tornPaint, setpx,
                   wirepx, wrote, nego, codecVars, vct, dm, win, desync,
                   reqs, committed, bpp>>

\* -------------------------------------------- the protocol thread: _recv
\* thread t goes on from position pc[t] with the value v its _recv returned
Deliver(t, v) ==
    LET p == pc[t]
        r == AfterRecv(p, v)
    IN  /\ pc' = [pc EXCEPT ![t] = r.pc]
        /\ err' = [err EXCEPT ![t] = r.err]
        /\ last' = [last EXCEPT ![t] = [k |-> p, v |-> v]]
        /\ width' = IF p = "recv_wh" THEN v[1] ELSE width
        /\ height' = IF p = "recv_wh" THEN v[2] ELSE height
        /\ msgs' = IF p = "recv_type" THEN msgs + 1 ELSE msgs
        /\ bpp' = [bpp EXCEPT ![t] = IF p = "recv_pf" THEN v ELSE @]
        /\ nrects' = [nrects EXCEPT ![t] =
                IF r.pc = "finally" THEN 0 ELSE IF p = "fbu_nrects" THEN v ELSE @]
        /\ rect' = [rect EXCEPT ![t] =
                IF r.pc = "finally" THEN NoRect
                ELSE IF p = "rect_hdr" THEN [x |-> v.x, y |-> v.y, w |-> v.w, h |-> v.h]
                ELSE @]
        /\ dlen' = [dlen EXCEPT ![t] = IF p = "raw_data" THEN v ELSE @]
        /\ pix' = [pix EXCEPT ![t] = IF p = "raw_data" THEN 0 ELSE @]

\* thread t leaves for the finally block with exception e
Unwind(t, e) ==
    /\ pc' = [pc EXCEPT ![t] = "finally"]
    /\ err' = [err EXCEPT ![t] = e]
    /\ nrects' = [nrects EXCEPT ![t] = 0]
    /\ rect' = [rect EXCEPT ![t] = NoRect]
    /\ dlen' = [dlen EXCEPT ![t] = 0]
    /\ pix' = [pix EXCEPT ![t] = 0]

\* _recv returns all the bytes asked for (maxMsgs: how many messages the
\* servers send to the update loops in the behaviour)
RecvOk(t, maxMsgs) ==
    /\ pc[t] \in RecvPcs
    /\ RecvLen(t) > 0
    /\ is_running
    /\ SockOpen
    /\ pc[t] = "recv_type" => msgs < maxMsgs
    /\ \E v \in ServerVals(pc[t], RecvLen(t)) : Deliver(t, v)
    /\ crossed' = Touch(t)
    /\ UNCHANGED <<widgetVars, image, dirty, callerVars, sending, tornPaint, setpx,
                   wirepx, wrote, nego, codecVars, vct, dm, win, desync,
                   reqs, committed, inj>>

\* _recv(0): the while loop is not entered and b'' is returned
RecvEmpty(t) ==
    /\ pc[t] \in RecvPcs
    /\ RecvLen(t) = 0
    /\ Deliver(t, IF pc[t] = "recv_sectypes" THEN {} ELSE 0)
    /\ UNCHANGED <<widgetVars, image, dirty, callerVars, sending, crossed, tornPaint, setpx,
                   wirepx, wrote, nego, codecVars, vct, dm, win, desync,
                   reqs, committed, inj>>

\* _recv finds is_running false at its loop test and returns fewer bytes than
\* asked for
RecvShort(t) ==
    /\ pc[t] \in RecvPcs
    /\ RecvLen(t) > 0
    /\ ~is_running
    /\ IF ShortRaises(pc[t])
       THEN /\ Unwind(t, IF pc[t] \in {"recv_nsec", "recv_type"}
                         THEN "IndexError" ELSE "StructError")
            /\ last' = [last EXCEPT ![t] = [k |-> "short", v |-> pc[t]]]
            /\ UNCHANGED <<width, height, msgs, bpp>>
       ELSE \E v \in ShortVals(pc[t], RecvLen(t)) : Deliver(t, v)
    /\ UNCHANGED <<widgetVars, image, dirty, callerVars, sending, crossed, tornPaint, setpx,
                   wirepx, wrote, nego, codecVars, vct, dm, win, desync,
                   reqs, committed, inj>>

\* sock.recv raises socket.timeout, which _recv re-raises: fatal before the
\* main loop, the keepalive branch (line 152) inside it
RecvTimeout(t) ==
    /\ pc[t] \in RecvPcs
    /\ RecvLen(t) > 0
    /\ IF pc[t] \in LoopRecvPcs
       THEN /\ pc' = [pc EXCEPT ![t] = "keepalive"]
            /\ nrects' = [nrects EXCEPT ![t] = 0]
            /\ rect' = [rect EXCEPT ![t] = NoRect]
            /\ dlen' = [dlen EXCEPT ![t] = 0]
            /\ pix' = [pix EXCEPT ![t] = 0]
            /\ UNCHANGED err
       ELSE Unwind(t, "Timeout")
    /\ desync' = [desync EXCEPT ![t] = @ \/ pc[t] \in LoopRecvPcs \ {"recv_type"}]
    /\ UNCHANGED <<widgetVars, fbVars, callerVars, last, msgs, sending, crossed, tornPaint, setpx,
                   wirepx, wrote, nego, codecVars, vct, dm, win,
                   reqs, committed, bpp, inj>>

\* sock.recv raises anything else (self.sock is None, the socket is closed,
\* the peer closed or reset): _recv clears the flag and re-raises
RecvError(t) ==
    /\ pc[t] \in RecvPcs
    /\ RecvLen(t) > 0
    /\ is_running' = FALSE
    /\ Unwind(t, "ConnectionClosed")
    /\ UNCHANGED <<sock, sockState, thread, fbVars, callerVars, last, msgs,
                   sending, crossed, tornPaint, setpx,
                   wirepx, wrote, nego, codecVars, vct, dm, win, desync,
                   reqs, committed, bpp, inj>>

\* -------------------------------------------- the protocol thread: _send
\* sendall has written part of the message so far
SendPart(t) ==
    /\ pc[t] \in SendPcs
    /\ t \notin sending
    /\ SockOpen
    /\ sending' = sending \cup {t}
    /\ crossed' = Touch(t)
    /\ UNCHANGED <<widgetVars, fbVars, callerVars, pc, err, last, rectVars,
                   msgs, tornPaint, setpx,
                   wirepx, wrote, nego, codecVars, vct, dm, win, desync,
                   reqs, committed, bpp, inj>>

\* sendall writes what is left of the message (all of it when nothing was
\* written yet) and _send returns
SendDone(t) ==
    /\ pc[t] \in SendPcs
    /\ SockOpen
    /\ sending' = sending \ {t}
    /\ crossed' = Touch(t)
    /\ pc' = [pc EXCEPT ![t] = AfterSend(pc[t])]
    /\ wrote' = [wrote EXCEPT ![t] = MsgAt(t)]
    /\ nego' = [nego EXCEPT ![t] =
            IF pc[t] \in {"send_setenc", "send_fbreq"}
            THEN Append(@, MsgAt(t)[1]) ELSE @]
    /\ reqs' = IF pc[t] \in {"send_fbreq", "send_increq", "send_keepalive"}
               THEN [reqs EXCEPT ![sock] = NoteRequest(@, MsgAt(t)[2])]
               ELSE reqs
    /\ bpp' = [bpp EXCEPT ![t] = IF pc[t] = "send_fbreq" THEN 0 ELSE @]
    /\ UNCHANGED <<widgetVars, fbVars, callerVars, err, last, rectVars, msgs,
                   tornPaint, setpx,
                   wirepx, codecVars, vct, dm, win, desync,
                   committed, inj>>

\* sendall raises: _send clears the flag and re-raises
SendError(t) ==
    /\ pc[t] \in SendPcs
    /\ is_running' = FALSE
    /\ sending' = sending \ {t}
    /\ Unwind(t, "ConnectionClosed")
    /\ UNCHANGED <<sock, sockState, thread, fbVars, callerVars, last, msgs,
                   crossed, tornPaint, setpx,
                   wirepx, wrote, nego, codecVars, vct, dm, win, desync,
                   reqs, committed, bpp, inj>>

\* -------------------------------------- the protocol thread: local steps
\* lines 121-123: the image is created with the ServerInit dimensions
MakeImage(t) ==
    /\ pc[t] = "make_image"
    /\ image' = BlankImage(width, height)
    /\ committed' = BlankImage(width, height)
    /\ dirty' = FALSE
    /\ pc' = [pc EXCEPT ![t] = "send_setenc"]
    /\ UNCHANGED <<widgetVars, width, height, callerVars, err, last, rectVars,
                   msgs, sending, crossed, tornPaint, setpx,
                   wirepx, wrote, nego, codecVars, vct, dm, win, desync,
                   reqs, bpp, inj>>

\* line 136: while self.is_running
LoopTest(t) ==
    /\ pc[t] = "loop_test"
    /\ pc' = [pc EXCEPT ![t] = IF is_running THEN "recv_type" ELSE "finally"]
    /\ last' = [last EXCEPT ![t] = NoLast]
    /\ UNCHANGED <<widgetVars, fbVars, callerVars, err, rectVars, msgs,
                   sending, crossed, tornPaint, setpx,
                   wirepx, wrote, nego, codecVars, vct, dm, win, desync,
                   reqs, committed, bpp, inj>>

\* lines 199-210, one iteration of the pixel loops
RawPixel(t) ==
    /\ pc[t] = "raw_pixels"
    /\ pix[t] < rect[t].w * rect[t].h
    /\ LET i == pix[t] % rect[t].w
           j == pix[t] \div rect[t].w
           px == rect[t].x + i
           py == rect[t].y + j
       IN  \E c \in 1..NColours :
            /\ wirepx' = WirePixel(c)
            /\ IF ~Clipped(px, py, width, height) /\ pix[t] < dlen[t]
               THEN /\ image' = IF <<px, py>> \in DOMAIN image.px
                                 THEN [image EXCEPT !.px[<<px, py>>] =
                                            Rgb32(PixelColor(WirePixel(c)))]
                                 ELSE image
                    /\ setpx' = <<px, py>>
                    /\ dirty' = TRUE
               ELSE /\ image' = image
                    /\ setpx' = <<>>
                    /\ dirty' = dirty
    /\ pix' = [pix EXCEPT ![t] = @ + 1]
    /\ UNCHANGED <<widgetVars, width, height, callerVars, pc, err, last,
                   nrects, rect, dlen, msgs, sending, crossed, tornPaint,
                   wrote, nego, codecVars, vct, dm, win, desync,
                   reqs, committed, bpp, inj>>

\* the pixel loops are over: the next rectangle, or the end of the message
RectDone(t) ==
    /\ pc[t] = "raw_pixels"
    /\ pix[t] = rect[t].w * rect[t].h
    /\ nrects' = [nrects EXCEPT ![t] = @ - 1]
    /\ pc' = [pc EXCEPT ![t] = IF nrects[t] > 1 THEN "rect_hdr" ELSE "fbu_done"]
    /\ rect' = [rect EXCEPT ![t] = NoRect]
    /\ dlen' = [dlen EXCEPT ![t] = 0]
    /\ pix' = [pix EXCEPT ![t] = 0]
    /\ setpx' = <<>>
    /\ wirepx' = <<>>
    /\ UNCHANGED <<widgetVars, fbVars, callerVars, err, last, msgs, sending,
                   crossed, tornPaint,
                   wrote, nego, codecVars, vct, dm, win, desync,
                   reqs, committed, bpp, inj>>

\* lines 186-190: self.update(), then the test that guards the next request
FbuDone(t) ==
    /\ pc[t] = "fbu_done"
    /\ dirty' = FALSE
    /\ committed' = image
    /\ pc' = [pc EXCEPT ![t] = IF is_running THEN "send_increq" ELSE "loop_test"]
    /\ UNCHANGED <<widgetVars, width, height, image, callerVars, err, last,
                   rectVars, msgs, sending, crossed, tornPaint, setpx,
                   wirepx, wrote, nego, codecVars, vct, dm, win, desync,
                   reqs, bpp, inj>>

\* lines 152-156: the test that guards the keepalive request
Keepalive(t) ==
    /\ pc[t] = "keepalive"
    /\ pc' = [pc EXCEPT ![t] = IF is_running THEN "send_keepalive" ELSE "loop_test"]
    /\ UNCHANGED <<widgetVars, fbVars, callerVars, err, last, rectVars, msgs,
                   sending, crossed, tornPaint, setpx,
                   wirepx, wrote, nego, codecVars, vct, dm, win, desync,
                   reqs, committed, bpp, inj>>

\* lines 158-166: the exception, if any, is printed and forgotten, then the
\* finally block runs and the thread ends
Finally(t) ==
    /\ pc[t] = "finally"
    /\ is_running' = FALSE
    /\ sockState' = Dropped(sockState)
    /\ crossed' = Touch(t)
    /\ pc' = [pc EXCEPT ![t] = "dead"]
    /\ err' = [err EXCEPT ![t] = "none"]
    /\ last' = [last EXCEPT ![t] = NoLast]
    /\ wrote' = [wrote EXCEPT ![t] = <<>>]
    /\ nego' = [nego EXCEPT ![t] = <<>>]
    /\ bpp' = [bpp EXCEPT ![t] = 0]
    /\ desync' = [desync EXCEPT ![t] = FALSE]
    /\ UNCHANGED <<sock, thread, fbVars, callerVars, rectVars, msgs, sending,
                   tornPaint, setpx,
                   wirepx, codecVars, vct, dm, win,
                   reqs, committed, inj>>

\* ------------------------------------------------------------ specification
CallerNext ==
    \/ ConnectOk(MaxStarts)
    \/ ConnectFail
    \/ ConnectFailCreate
    \/ DisconnectBegin
    \/ JoinReturn
    \/ JoinTimeout
    \/ PaintEvent
    \/ PointerEvent(FALSE)
    \/ KeySkip(SampleKeys, FALSE)
    \/ KeyPart(SampleKeys, FALSE)
    \/ KeyDone(SampleKeys, FALSE)
    \/ KeyError(SampleKeys, FALSE)

ThreadNext(t) ==
    \/ RecvOk(t, MaxMsgs)
    \/ RecvEmpty(t)
    \/ RecvShort(t)
    \/ RecvTimeout(t)
    \/ RecvError(t)
    \/ SendPart(t)
    \/ SendDone(t)
    \/ SendError(t)
    \/ MakeImage(t)
    \/ LoopTest(t)
    \/ RawPixel(t)
    \/ RectDone(t)
    \/ FbuDone(t)
    \/ Keepalive(t)
    \/ Finally(t)

Next == CallerNext \/ \E t \in Threads : ThreadNext(t)

\* one connection: every action of the caller and of the thread it starts
Spec == Init /\ [][Next]_vars

\* several connections: connect_to_vnc and disconnect_vnc called in any order,
\* every thread running its handshake and then an update loop whose server
\* stays silent (the loop only times out and sends keepalive requests)
ReconnectNext ==
    \/ ConnectOk(MaxConnects)
    \/ ConnectFail
    \/ ConnectFailCreate
    \/ DisconnectBegin
    \/ JoinReturn
    \/ JoinTimeout
    \/ \E t \in Threads :
          \/ RecvOk(t, 0)
          \/ RecvEmpty(t)
          \/ RecvShort(t)
          \/ RecvTimeout(t)
          \/ RecvError(t)
          \/ SendPart(t)
          \/ SendDone(t)
          \/ SendError(t)
          \/ MakeImage(t)
          \/ LoopTest(t)
          \/ Keepalive(t)
          \/ Finally(t)

SpecReconnect == Init /\ [][ReconnectNext]_vars

\* one connection to a server that never sends a message to the update loop:
\* the steps of thread t
SilentThread(t) ==
    \/ RecvOk(t, 0)
    \/ RecvEmpty(t)
    \/ RecvShort(t)
    \/ RecvTimeout(t)
    \/ RecvError(t)
    \/ SendPart(t)
    \/ SendDone(t)
    \/ SendError(t)
    \/ MakeImage(t)
    \/ LoopTest(t)
    \/ Keepalive(t)
    \/ Finally(t)

SilentNext ==
    \/ ConnectOk(MaxStarts)
    \/ ConnectFail
    \/ ConnectFailCreate
    \/ DisconnectBegin
    \/ JoinReturn
    \/ JoinTimeout
    \/ \E t \in Threads : SilentThread(t)

\* a started thread is a daemon thread the interpreter keeps scheduling: it
\* takes its next step whenever it has one; the caller is free to do nothing
SpecSilent ==
    Init /\ [][SilentNext]_vars /\ \A t \in Threads : WF_vars(SilentThread(t))

\* the keys pressed and released in SpecInput: named keys, function keys,
\* printable characters, and keys left to the fallback
InputKeys ==
    {Key_Escape, Key_Space, Key_Alt, Key_F1, Key_F1 + 1, Key_F12, Key_F12 + 1,
     65, 126, 0, 31, 127}

\* one connection, made at the first attempt, to a silent server, with the
\* caller's input events and their outcomes
InputNext ==
    \/ ConnectOk(MaxStarts)
    \/ DisconnectBegin
    \/ JoinReturn
    \/ JoinTimeout
    \/ PointerEvent(TRUE)
    \/ KeySkip(InputKeys, TRUE)
    \/ KeyPart(InputKeys, TRUE)
    \/ KeyDone(InputKeys, TRUE)
    \/ KeyError(InputKeys, TRUE)
    \/ \E t \in Threads : SilentThread(t)

SpecInput == Init /\ [][InputNext]_vars

\* ------------------------------------------- helpers called on their own
programVars ==
    <<sock, sockState, thread, is_running, width, height, image, cpc, lastOp,
      joinedAt, pc, err, last, nrects, rect, dlen, pix, msgs, sending, crossed,
      dirty, tornPaint, setpx, wirepx, wrote, nego, reqs, committed, bpp,
      inj, desync>>

\* PointerEvent with x and y in each other's place
PointerEventMsgSwapped(mask, x, y) == <<5, mask>> \o Pack16(y) \o Pack16(x)

\* line 280: struct.pack('>BBHH', 5, button_mask, x, y)
PointerEventMsg(mask, x, y) == <<5, mask>> \o Pack16(x) \o Pack16(y)

\* bit j of a character code (byte & (1 << j), line 234)
Bit(byte, j) == (byte \div 2^j) % 2

\* the bit loop stopping one bit short (range(7))
ReverseBitsSeven(byte) ==
    Bit(byte, 0) * 128 + Bit(byte, 1) * 64 + Bit(byte, 2) * 32 +
    Bit(byte, 3) * 16 + Bit(byte, 4) * 8 + Bit(byte, 5) * 4 + Bit(byte, 6) * 2

\* lines 232-235: bit j of the character sets bit 7 - j of the key byte
ReverseBits(byte) ==
    Bit(byte, 0) * 128 + Bit(byte, 1) * 64 + Bit(byte, 2) * 32 +
    Bit(byte, 3) * 16 + Bit(byte, 4) * 8 + Bit(byte, 5) * 4 +
    Bit(byte, 6) * 2 + Bit(byte, 7)

\* password.ljust(8, '\0')[:8]
Ljust8(password) ==
    [i \in 1..8 |-> IF i <= Len(password) THEN password[i] ELSE 0]

\* _get_des_key
GetDesKey(password) == [i \in 1..8 |-> ReverseBits(Ljust8(password)[i])]

\* int(): a quotient of integers, rounded towards zero
Trunc(n, d) == IF n >= 0 THEN n \div d ELSE -((-n) \div d)

Min(a, b) == IF a < b THEN a ELSE b
Max(a, b) == IF a > b THEN a ELSE b

\* lines 271-276 (and simple_vnc_widget.py lines 70-75): a position on a
\* surface of `size` pixels scaled to a framebuffer of `dim` pixels and clamped
ScaleClamp(pos, dim, size) == Max(0, Min(Trunc(pos * dim, size), dim - 1))

\* the character codes of the passwords of the model
PwChars == {1, 97, 254}

Passwords == UNION {[1..n -> PwChars] : n \in 0..MaxPwLen}

\* the 16-bit coordinates and the masks of the pointer events of the model
Coord16 == {0, 1, 255, 256, 32768, 65535}

CodecArgs ==
    [f : {"pointer"}, mask : 0..7, x : Coord16, y : Coord16] \cup
    [f : {"password"}, password : Passwords] \cup
    [f : {"scale"}, px : (-MaxSurface)..(2 * MaxSurface),
     py : (-MaxSurface)..(2 * MaxSurface), w : 0..MaxFb, h : 0..MaxFb,
     ww : 1..MaxSurface, wh : 1..MaxSurface]

InitCodec ==
    /\ InitWidget
    /\ vct = InitVct
    /\ dm = InitDm
    /\ win = InitWin
    /\ arg \in CodecArgs
    /\ res = <<>>

EncodePointer ==
    /\ arg.f = "pointer"
    /\ res = <<>>
    /\ res' = PointerEventMsg(arg.mask, arg.x, arg.y)
    /\ UNCHANGED <<programVars, vct, dm, win, arg>>

DeriveKey ==
    /\ arg.f = "password"
    /\ res = <<>>
    /\ res' = GetDesKey(arg.password)
    /\ UNCHANGED <<programVars, vct, dm, win, arg>>

ScalePointer ==
    /\ arg.f = "scale"
    /\ res = <<>>
    /\ res' = <<ScaleClamp(arg.px, arg.w, arg.ww), ScaleClamp(arg.py, arg.h, arg.wh)>>
    /\ UNCHANGED <<programVars, vct, dm, win, arg>>

CodecNext == EncodePointer \/ DeriveKey \/ ScalePointer

\* _get_des_key and the packing of line 280, each applied to one argument
SpecCodec == InitCodec /\ [][CodecNext]_vars


\* ------------------------------- VncConnectionThread.run (agent/main.py)
\* self.connection_failed.emit(...) followed by the end of run
VctFail == [vct EXCEPT !.pc = "done", !.signals = Append(@, "connection_failed")]

\* line 33: run begins and emits the first log_message
VctStart ==
    /\ vct.pc = "idle"
    /\ vct' = [vct EXCEPT !.pc = "poll", !.i = 0, !.logs = @ + 1]
    /\ UNCHANGED <<programVars, codecVars, dm, win>>

\* lines 40-43: the port is mapped; host_port is set and the loop is left
VctPollFound ==
    /\ vct.pc = "poll"
    /\ vct.i < max_retries
    /\ \E port \in HostPorts :
        vct' = [vct EXCEPT !.pc = "probe", !.host_port = port, !.i = 0,
                           !.logs = @ + 1]
    /\ UNCHANGED <<programVars, codecVars, dm, win>>

\* lines 44-46: the port is not mapped yet; log, sleep, next attempt
VctPollWait ==
    /\ vct.pc = "poll"
    /\ vct.i < max_retries
    /\ vct' = [vct EXCEPT !.i = @ + 1, !.logs = @ + 1]
    /\ UNCHANGED <<programVars, codecVars, dm, win>>

\* lines 37-41: containers.get, reload or the reading of the port raises,
\* and line 66 reports it
VctPollRaise ==
    /\ vct.pc = "poll"
    /\ vct.i < max_retries
    /\ vct' = VctFail
    /\ UNCHANGED <<programVars, codecVars, dm, win>>

\* lines 48-50: the loop ended with host_port still None
VctPollExhausted ==
    /\ vct.pc = "poll"
    /\ vct.i = max_retries
    /\ vct' = VctFail
    /\ UNCHANGED <<programVars, codecVars, dm, win>>

\* the service answers, connection_successful is emitted and the loop goes on
\* instead of returning
VctProbeOkNoReturn ==
    /\ vct.pc = "probe"
    /\ vct.i < max_retries
    /\ vct' = [vct EXCEPT !.i = @ + 1, !.logs = @ + 1,
                          !.signals = Append(@, "connection_successful")]
    /\ UNCHANGED <<programVars, codecVars, dm, win>>

\* lines 55-58: the service answers; connection_successful is emitted and
\* run returns
VctProbeOk ==
    /\ vct.pc = "probe"
    /\ vct.i < max_retries
    /\ vct' = [vct EXCEPT !.pc = "done", !.logs = @ + 1,
                          !.signals = Append(@, "connection_successful")]
    /\ UNCHANGED <<programVars, codecVars, dm, win>>

\* lines 59-61: socket.timeout or ConnectionRefusedError; log, sleep, next
\* attempt
VctProbeRetry ==
    /\ vct.pc = "probe"
    /\ vct.i < max_retries
    /\ vct' = [vct EXCEPT !.i = @ + 1, !.logs = @ + 1]
    /\ UNCHANGED <<programVars, codecVars, dm, win>>

\* line 55: create_connection raises another exception, and line 66 reports
\* it
VctProbeRaise ==
    /\ vct.pc = "probe"
    /\ vct.i < max_retries
    /\ vct' = VctFail
    /\ UNCHANGED <<programVars, codecVars, dm, win>>

\* line 63: the second loop ended without an answer
VctProbeExhausted ==
    /\ vct.pc = "probe"
    /\ vct.i = max_retries
    /\ vct' = VctFail
    /\ UNCHANGED <<programVars, codecVars, dm, win>>

VctNext ==
    \/ VctStart
    \/ VctPollFound
    \/ VctPollWait
    \/ VctPollRaise
    \/ VctPollExhausted
    \/ VctProbeOk
    \/ VctProbeRetry
    \/ VctProbeRaise
    \/ VctProbeExhausted

\* one run of a VncConnectionThread; the thread is scheduled until run ends
\* (every Docker call, connection attempt and sleep returns or raises)
SpecVct == Init /\ [][VctNext]_vars /\ WF_vars(VctNext)


\* ------------------------------------ DockerManager (orchestrator/main.py)
\* signal.emit(...) from the DockerManager thread: queued for the window's
\* slot, which runs in the GUI thread
Emit(signal) == [win EXCEPT !.queue = Append(@, signal)]

\* the emit of scenario_started or scenario_stopped that ends a call of
\* _start_scenario_containers: it answers the request the call was given
EmitAnswer(signal) ==
    [win EXCEPT !.queue = Append(@, signal),
                !.asked = IF @ = dm.file THEN NoFile ELSE @]

\* lines 30-31: docker.from_env() returns
DmRunOk ==
    /\ dm.pc = "created"
    /\ dm' = [dm EXCEPT !.pc = "loop", !.docker_client = TRUE]
    /\ UNCHANGED <<programVars, codecVars, vct, win>>

\* lines 32-35: docker.from_env() raises and run returns
DmRunNoDocker ==
    /\ dm.pc = "created"
    /\ dm' = [dm EXCEPT !.pc = "ended"]
    /\ UNCHANGED <<programVars, codecVars, vct, win>>

\* lines 37-39: the loop test, then the test of scenario_file_to_start and
\* the call of _start_scenario_containers with it
DmLoop ==
    /\ dm.pc = "loop"
    /\ dm' = IF ~dm.is_running THEN [dm EXCEPT !.pc = "ended"]
             ELSE IF dm.scenario_file_to_start # NoFile
                  THEN [dm EXCEPT !.pc = "parse", !.file = dm.scenario_file_to_start]
                  ELSE [dm EXCEPT !.pc = "test_stop"]
    /\ UNCHANGED <<programVars, codecVars, vct, win>>

\* lines 62-67: the file is read and parsed; it names 0..MaxTeams teams
DmParseOk ==
    /\ dm.pc = "parse"
    /\ \E n \in 0..MaxTeams : dm' = [dm EXCEPT !.pc = "team", !.teams = n, !.team = 1]
    /\ UNCHANGED <<programVars, codecVars, vct, win>>

\* lines 102-104: an exception in _start_scenario_containers is logged and
\* scenario_stopped is emitted
DmStartFailed ==
    /\ dm' = [dm EXCEPT !.pc = "reset", !.teams = 0, !.team = 0]
    /\ win' = EmitAnswer("scenario_stopped")
    /\ UNCHANGED <<programVars, codecVars, vct>>

\* lines 62-64: open or yaml.safe_load raises
DmParseFail ==
    /\ dm.pc = "parse"
    /\ DmStartFailed

\* lines 68-98: the image of the team is built and its container started and
\* put into active_containers
DmTeamStart ==
    /\ dm.pc = "team"
    /\ dm.team <= dm.teams
    /\ dm' = [dm EXCEPT !.active_containers = @ \cup {dm.team}, !.team = @ + 1]
    /\ UNCHANGED <<programVars, codecVars, vct, win>>

\* lines 69-70: the team has no dockerfile and is skipped
DmTeamSkip ==
    /\ dm.pc = "team"
    /\ dm.team <= dm.teams
    /\ dm' = [dm EXCEPT !.team = @ + 1]
    /\ UNCHANGED <<programVars, codecVars, vct, win>>

\* lines 78-96: the build or the start of the team's container raises
DmTeamFail ==
    /\ dm.pc = "team"
    /\ dm.team <= dm.teams
    /\ DmStartFailed

\* line 100: every team is done and scenario_started is emitted
DmStarted ==
    /\ dm.pc = "team"
    /\ dm.team > dm.teams
    /\ dm' = [dm EXCEPT !.pc = "reset", !.teams = 0, !.team = 0]
    /\ win' = EmitAnswer("scenario_started")
    /\ UNCHANGED <<programVars, codecVars, vct>>

\* line 40: self.scenario_file_to_start = None
DmReset ==
    /\ dm.pc = "reset"
    /\ dm' = [dm EXCEPT !.pc = "test_stop", !.scenario_file_to_start = NoFile,
                        !.file = NoFile]
    /\ UNCHANGED <<programVars, codecVars, vct, win>>

\* line 42: the test of should_stop_scenario
DmTestStop ==
    /\ dm.pc = "test_stop"
    /\ dm' = [dm EXCEPT !.pc = IF dm.should_stop_scenario THEN "stopping" ELSE "sleep"]
    /\ UNCHANGED <<programVars, codecVars, vct, win>>

\* lines 43, 106-117: _stop_all_containers stops and removes what it can and
\* empties active_containers
DmStopAll ==
    /\ dm.pc = "stopping"
    /\ dm' = [dm EXCEPT !.pc = "clear_stop", !.active_containers = {}]
    /\ UNCHANGED <<programVars, codecVars, vct, win>>

\* lines 44-45: the flag is cleared and scenario_stopped is emitted
DmClearStop ==
    /\ dm.pc = "clear_stop"
    /\ dm' = [dm EXCEPT !.pc = "sleep", !.should_stop_scenario = FALSE]
    /\ win' = Emit("scenario_stopped")
    /\ UNCHANGED <<programVars, codecVars, vct>>

\* line 47: msleep(100) returns
DmSleep ==
    /\ dm.pc = "sleep"
    /\ dm' = [dm EXCEPT !.pc = "loop"]
    /\ UNCHANGED <<programVars, codecVars, vct, win>>

\* lines 286-295 and 49-50: the operator starts the selected scenario
WinStart ==
    /\ ~win.closed
    /\ win.start_enabled
    /\ \E f \in Files :
        /\ dm' = [dm EXCEPT !.scenario_file_to_start = f]
        /\ win' = [win EXCEPT !.start_enabled = FALSE, !.asked = f]
    /\ UNCHANGED <<programVars, codecVars, vct>>

\* lines 305-308 and 52-53: the operator stops the scenario
WinStop ==
    /\ ~win.closed
    /\ win.stop_enabled
    /\ dm' = [dm EXCEPT !.should_stop_scenario = TRUE]
    /\ win' = [win EXCEPT !.stop_enabled = FALSE]
    /\ UNCHANGED <<programVars, codecVars, vct>>

\* lines 297-303: the slot of scenario_started
WinOnStarted ==
    /\ ~win.closed
    /\ win.queue # <<>>
    /\ Head(win.queue) = "scenario_started"
    /\ win' = [win EXCEPT !.queue = Tail(@), !.stop_enabled = TRUE]
    /\ UNCHANGED <<programVars, codecVars, vct, dm>>

\* lines 310-312: the slot of scenario_stopped
WinOnStopped ==
    /\ ~win.closed
    /\ win.queue # <<>>
    /\ Head(win.queue) = "scenario_stopped"
    /\ win' = [win EXCEPT !.queue = Tail(@), !.start_enabled = TRUE]
    /\ UNCHANGED <<programVars, codecVars, vct, dm>>

\* lines 314-317 and 119-120: the window is closed and quit clears is_running
WinClose ==
    /\ ~win.closed
    /\ win' = [win EXCEPT !.closed = TRUE]
    /\ dm' = [dm EXCEPT !.is_running = FALSE]
    /\ UNCHANGED <<programVars, codecVars, vct>>

DmNext ==
    \/ DmRunOk
    \/ DmRunNoDocker
    \/ DmLoop
    \/ DmParseOk
    \/ DmParseFail
    \/ DmTeamStart
    \/ DmTeamSkip
    \/ DmTeamFail
    \/ DmStarted
    \/ DmReset
    \/ DmTestStop
    \/ DmStopAll
    \/ DmClearStop
    \/ DmSleep

WinSlots == WinOnStarted \/ WinOnStopped

DockerNext == DmNext \/ WinSlots \/ WinStart \/ WinStop \/ WinClose

\* the DockerManager thread and the operator's window: the thread is
\* scheduled as long as run has not returned, and the GUI thread's event loop
\* delivers every queued signal; the operator may or may not press a button
SpecDocker ==
    Init /\ [][DockerNext]_vars /\ WF_vars(DmNext) /\ WF_vars(WinSlots)

\* ------------------------------------------------------------------- claims
\* C1: a thread whose _recv has just returned a whole rectangle header with an
\* encoding other than 0 raises UnsupportedEncoding and goes to the finally
\* block; while it is there the header is still the last thing it read; and
\* its only step from there ends the thread with the flag false, self.sock not
\* open and the socket of its own connection closed.
UnsupportedEncodingEndsConnection ==
    [][\A t \in Threads :
        /\ (pc[t] = "rect_hdr" /\ last'[t].k = "rect_hdr"
                /\ last'[t].v.enc # RawEncoding)
            => (pc'[t] = "finally" /\ err'[t] = "UnsupportedEncoding")
        /\ (pc[t] = "finally" /\ err[t] = "UnsupportedEncoding")
            => /\ last[t].k = "rect_hdr"
               /\ t \notin sending
               /\ pc'[t] # pc[t]
                    => (pc'[t] = "dead" /\ ~is_running' /\ ~SockOpen'
                        /\ sockState'[t] = "closed")
      ]_vars

UnsupportedEncodingRaised ==
    \E t \in Threads :
        /\ pc[t] = "finally"
        /\ err[t] = "UnsupportedEncoding"
        /\ last[t].k = "rect_hdr"
        /\ last[t].v.enc = 1

\* C2: a thread whose _recv has just returned a list of security types without
\* type 2 raises UnsupportedSecurity and goes to the finally block without
\* writing; while it is there the type list is still the last thing it read and
\* it has no write under way; and its only step from there ends the thread.
UnsupportedSecurityEndsHandshake ==
    [][\A t \in Threads :
        /\ (pc[t] = "recv_sectypes" /\ last'[t].k = "recv_sectypes"
                /\ VncAuth \notin last'[t].v)
            => (pc'[t] = "finally" /\ err'[t] = "UnsupportedSecurity"
                /\ sending' = sending)
        /\ (pc[t] = "finally" /\ err[t] = "UnsupportedSecurity")
            => /\ last[t].k = "recv_sectypes"
               /\ t \notin sending
               /\ pc'[t] # pc[t] => (pc'[t] = "dead" /\ sending' = sending)
      ]_vars

UnsupportedSecurityRaised ==
    \E t \in Threads :
        /\ pc[t] = "finally"
        /\ err[t] = "UnsupportedSecurity"
        /\ last[t] = [k |-> "recv_sectypes", v |-> {1, 16}]

ConnectFailureStartsNothing ==
    [][(sock' \notin {sock, NoSock} /\ lastOp' = "connect_failed")
        => /\ sockState'[sock'] = "closed"
           /\ pc' = pc
           /\ thread' = thread
           /\ is_running' = is_running
      ]_vars

ConnectFailedOnIdleWidget ==
    /\ lastOp = "connect_failed"
    /\ sock # NoSock
    /\ sockState[sock] = "closed"
    /\ ~is_running
    /\ thread = NoThread
    /\ \A t \in Threads : pc[t] = "unborn"

\* C5: when disconnect_vnc began while the thread was inside a _recv of its
\* main loop, the thread is no longer alive at the moment disconnect_vnc
\* returns from its join.
DisconnectEndsBlockedThread ==
    [][(cpc = "joining" /\ joinedAt = "recv" /\ cpc' = "idle")
        => ~Alive(thread)]_vars

\* C6: whenever the last lifecycle call that returned is disconnect_vnc, called
\* once or again on a widget it had already disconnected (or that never
\* connected), the running flag is false and there is no transport and no
\* thread reference.
DisconnectIdempotent ==
    lastOp \in {"disconnect", "redisconnect"}
        => (~is_running /\ sock = NoSock /\ thread = NoThread)

SecondDisconnectReturned ==
    /\ lastOp = "redisconnect"
    /\ cpc = "idle"
    /\ NumStarted > 0

\* C7: at most one writer at a time has part of a message written to the
\* transport.
WritesMutuallyExclusive == Cardinality(sending) <= 1

\* C8: no thread ever reads from, writes to or closes a socket opened by a
\* connect_to_vnc call later than the one that started it.
NoThreadUsesLaterSocket == \A t \in Threads : ~crossed[t]

\* C9: paintEvent never draws the image while pixels of a message that is not
\* yet fully applied are in it.
PaintSeesWholeMessages == ~tornPaint

\* C10: in every iteration of the pixel loops of a Raw rectangle, a pixel
\* that is written lies inside the framebuffer (px < width and py < height), and
\* a pixel of the rectangle that lies inside the framebuffer is written.
RawWritesClipped ==
    [][\A t \in Threads :
        (pc[t] = "raw_pixels" /\ pix'[t] = pix[t] + 1)
        => LET px == rect[t].x + (pix[t] % rect[t].w)
               py == rect[t].y + (pix[t] \div rect[t].w)
           IN  /\ setpx' # <<>>
                    => (setpx' = <<px, py>> /\ 0 <= px /\ px < width
                        /\ 0 <= py /\ py < height)
               /\ (px < width /\ py < height) => setpx' = <<px, py>>
      ]_vars

\* C11: in every iteration of the pixel loops of a Raw rectangle that covers
\* the whole framebuffer, the framebuffer pixel of that iteration afterwards
\* holds the red, green and blue of the wire pixel at that payload offset
\* (wire bytes 2, 1 and 0 for the shifts 16/8/0).
RawPixelsConverted ==
    [][\A t \in Threads :
        (pc[t] = "raw_pixels" /\ pix'[t] = pix[t] + 1
            /\ rect[t].x = 0 /\ rect[t].y = 0
            /\ rect[t].w = width /\ rect[t].h = height)
        => LET at == <<pix[t] % rect[t].w, pix[t] \div rect[t].w>>
           IN  /\ at \in DOMAIN image'.px
               /\ image'.px[at][2] = wirepx'[3]
               /\ image'.px[at][3] = wirepx'[2]
               /\ image'.px[at][4] = wirepx'[1]
      ]_vars

\* a PointerEvent message read back by its wire layout: type, mask, x, y
ParsePointerEvent(bytes) ==
    [type |-> bytes[1], mask |-> bytes[2], x |-> bytes[3] * 256 + bytes[4],
     y |-> bytes[5] * 256 + bytes[6]]

RECURSIVE Mirror(_, _)
Mirror(b, n) == IF n = 0 THEN 0 ELSE (b % 2) * 2^(n - 1) + Mirror(b \div 2, n - 1)

\* C13: the key derived from a password has exactly 8 bytes, and the bits of
\* its i-th byte in reverse order are the i-th byte of the password, or 0 past
\* the password's end; characters after the 8th contribute nothing.
DesKeyBitReversed ==
    (arg.f = "password" /\ res # <<>>)
        => /\ Len(res) = 8
           /\ \A i \in 1..8 :
                /\ res[i] \in 0..255
                /\ Mirror(res[i], 8) =
                     IF i <= Len(arg.password) THEN arg.password[i] ELSE 0

LongPasswordKeyDerived ==
    /\ arg.f = "password"
    /\ Len(arg.password) = 9
    /\ arg.password[1] = 97
    /\ res # <<>>

\* C14: when a thread has written its first FramebufferUpdateRequest (type 3),
\* the messages it wrote after ClientInit are SetPixelFormat (type 0), then
\* SetEncodings (type 2), then that request.
SetPixelFormatBeforeFirstRequest ==
    \A t \in Threads :
        (nego[t] # <<>> /\ nego[t][Len(nego[t])] = 3) => nego[t] = <<0, 2, 3>>

\* C15: the first write of a thread that read a 12-byte version line is that
\* line, byte for byte.
VersionEchoedVerbatim ==
    [][\A t \in Threads :
        (pc[t] = "send_version" /\ pc'[t] = "recv_nsec"
            /\ last[t].k = "recv_version" /\ Len(last[t].v) = 12)
        => (wrote[t] = <<>> /\ wrote'[t] = last[t].v)
      ]_vars

\* C16: the response written to a 16-byte challenge is two blocks, the
\* encryption of challenge bytes 0-7 and the encryption of bytes 8-15, and
\* nothing more.
ResponseIsTwoBlocks ==
    [][\A t \in Threads :
        (pc[t] = "send_response" /\ pc'[t] = "recv_status"
            /\ last[t].k = "recv_challenge" /\ Len(last[t].v) = 16)
        => wrote'[t] = <<DesBlock(SubSeq(last[t].v, 1, 8)),
                         DesBlock(SubSeq(last[t].v, 9, 16))>>
      ]_vars

\* C17: a thread whose _recv has just returned a nonzero authentication
\* status raises AuthenticationFailed and goes to the finally block; while it
\* is there the status is still the last thing it read, the response to the
\* challenge (to as much of it as _recv returned) is the last thing it wrote
\* (no ClientInit, no SetEncodings, no update request) and it has no write
\* under way; its only step from there
\* ends the thread with the flag cleared and its socket closed, and an ended
\* thread takes no further step.
AuthenticationFailureEndsSession ==
    [][\A t \in Threads :
        /\ (pc[t] = "recv_status" /\ last'[t].k = "recv_status"
                /\ last'[t].v # 0)
            => (pc'[t] = "finally" /\ err'[t] = "AuthenticationFailed"
                /\ sending' = sending /\ wrote' = wrote)
        /\ (pc[t] = "finally" /\ err[t] = "AuthenticationFailed")
            => /\ last[t].k = "recv_status"
               /\ wrote[t] \in {Encrypt(SubSeq(Challenge, 1, n), TRUE) : n \in 0..16}
               /\ nego[t] = <<>>
               /\ t \notin sending
               /\ pc'[t] # pc[t]
                    => /\ pc'[t] = "dead"
                       /\ sending' = sending
                       /\ ~is_running'
                       /\ sockState'[t] = "closed"
        /\ pc[t] = "dead" => pc'[t] = "dead"
      ]_vars

AuthenticationFailedRaised ==
    \E t \in Threads :
        /\ pc[t] = "finally"
        /\ err[t] = "AuthenticationFailed"
        /\ last[t] = [k |-> "recv_status", v |-> 1]

\* C18: a thread that read a security-type count of 0 fails with
\* NoSecuritySupported, not with UnsupportedSecurity, writing nothing.
NoSecurityTypesIsItsOwnFailure ==
    [][\A t \in Threads :
        (pc[t] = "recv_sectypes" /\ last[t].k = "recv_nsec" /\ last[t].v = 0
            /\ pc'[t] # pc[t])
        => (pc'[t] = "finally" /\ err'[t] = "NoSecuritySupported"
            /\ wrote' = wrote /\ sending' = sending)
      ]_vars

\* C19: a thread whose _recv has just returned a message-type byte outside
\* 0..3 raises ProtocolViolation and leaves the update loop.
UnknownMessageTypeEndsLoop ==
    [][\A t \in Threads :
        (pc[t] = "recv_type" /\ last'[t].k = "recv_type"
            /\ last'[t].v \notin 0..3)
        => (pc'[t] = "finally" /\ err'[t] = "ProtocolViolation")
      ]_vars

\* C20: a timeout of the read of the message type is not an error: the thread
\* goes to the keepalive branch; if the flag is still set there it writes one
\* message, the incremental request 3, 1, 0, 0, width, height (16-bit
\* big-endian fields), after which it is at the loop test, and with the flag
\* set the loop test leads back to the read of the message type.
TimeoutSendsKeepalive ==
    [][\A t \in Threads :
        /\ (pc[t] = "recv_type" /\ pc'[t] = "keepalive")
            => (err'[t] = "none" /\ wrote' = wrote /\ sending' = sending)
        /\ (pc[t] = "keepalive" /\ is_running /\ pc'[t] # pc[t])
            => (pc'[t] = "send_keepalive" /\ wrote' = wrote)
        /\ (pc[t] = "send_keepalive" /\ pc'[t] # pc[t] /\ err'[t] = "none")
            => /\ pc'[t] = "loop_test"
               /\ wrote'[t] = <<3, 1, 0, 0, 0, 0, width \div 256, width % 256,
                                height \div 256, height % 256>>
        /\ (pc[t] \in {"keepalive", "send_keepalive"} /\ pc'[t] = pc[t])
            => wrote'[t] = wrote[t]
        /\ (pc[t] = "loop_test" /\ is_running /\ pc'[t] # pc[t])
            => pc'[t] = "recv_type"
      ]_vars

KeepaliveWritten ==
    \E t \in Threads :
        /\ pc[t] = "recv_type"
        /\ msgs = 0
        /\ is_running
        /\ wrote[t] = UpdateRequest(1, width, height)
        /\ width = 1

\* C21: a thread that waits for a message type eventually leaves the update
\* loop, also when the server stays silent forever and nobody disconnects.
SilentServerEndsLoop ==
    \A t \in Threads : (pc[t] = "recv_type") ~> (pc[t] \in {"finally", "dead"})

\* C22: the handling of a FramebufferUpdate message is left only with every
\* rectangle applied (or by an exception that ends the loop); then update()
\* is called once, then, the flag being set, the incremental request 3, 1, 0,
\* 0, width, height is written once, and only then is the loop test reached
\* that leads to the read of the next message type.
UpdateAppliedSignalledRequested ==
    [][\A t \in Threads :
        /\ (pc[t] \in {"fbu_pad", "fbu_nrects", "rect_hdr", "raw_data", "raw_pixels"}
                /\ pc'[t] \notin {"fbu_pad", "fbu_nrects", "rect_hdr", "raw_data",
                                  "raw_pixels"})
            => /\ pc'[t] \in {"fbu_done", "finally"}
               /\ pc'[t] = "fbu_done" => nrects'[t] = 0
        /\ (pc[t] = "fbu_done" /\ pc'[t] # pc[t])
            => /\ ~dirty'
               /\ wrote' = wrote
               /\ is_running => pc'[t] = "send_increq"
        /\ (pc[t] = "send_increq" /\ pc'[t] # pc[t] /\ err'[t] = "none")
            => /\ pc'[t] = "loop_test"
               /\ wrote'[t] = <<3, 1, 0, 0, 0, 0, width \div 256, width % 256,
                                height \div 256, height % 256>>
      ]_vars

\* C23: on every socket the first FramebufferUpdateRequest written has the
\* incremental flag 0 and every later one the flag 1.
FirstRequestFullLaterIncremental == \A s \in Sockets : reqs[s] # "other"

\* C24: once a thread has left the update loop by an exception, the image
\* readers see is the one that was there when the last message was fully
\* applied: no pixel of the message the exception cut short is in it.
FailedUpdateLeavesNoPixels ==
    \A t \in Threads :
        (pc[t] = "finally" /\ err[t] # "none") => image = committed

\* C25: a _recv of n > 0 bytes ends in one of three ways: it raises
\* socket.timeout, it raises for a closed or broken connection, or it returns
\* exactly n bytes (the whole version line, the whole challenge, every pixel of
\* the rectangle, the whole name or text, the whole fixed-size field).
RecvReturnsAllOrRaises ==
    [][\A t \in Threads :
        (pc[t] \in RecvPcs /\ RecvLen(t) > 0 /\ pc'[t] # pc[t])
        => \/ pc'[t] = "keepalive"
           \/ pc'[t] = "finally" /\ err'[t] \in {"Timeout", "ConnectionClosed"}
           \/ /\ last'[t].k = pc[t]
              /\ pc[t] = "recv_version" => Len(last'[t].v) = 12
              /\ pc[t] = "recv_challenge" => Len(last'[t].v) = 16
              /\ pc[t] = "raw_data" => last'[t].v = rect[t].w * rect[t].h
              /\ pc[t] \in {"recv_name", "cme_data", "cut_text"}
                    => last'[t].v # "short"
      ]_vars

PointerInjectionWrites ==
    [][(inj' # inj /\ inj'.ev = "pointer"
            /\ thread # NoThread /\ pc[thread] \in LoopPcs
            /\ is_running /\ SockOpen)
        => inj'.out = "written"
      ]_vars

\* the key symbol the claim gives for a key: 0xFFBE + k for F(1 + k), the
\* character code for a printable character, the table value for a named
\* key, and otherwise the key's own code
ClaimedKeysym(key) ==
    IF key \in Key_F1..Key_F12 THEN 65470 + (key - Key_F1)
    ELSE IF key \in 32..126 THEN key
    ELSE IF key \in DOMAIN key_map THEN key_map[key]
    ELSE key

\* C28, as the claim states it: a key event handled while the widget is
\* running with a socket is written (or its write fails and ends the
\* connection), whatever the key, and a written KeyEvent is 4, the down flag,
\* two zero bytes and the claimed key symbol as 4 big-endian bytes.
KeyEventWrittenForEveryKey ==
    [][/\ (inj' # inj /\ inj'.ev = "key" /\ is_running /\ sock # NoSock)
            => inj'.out \in {"sending", "written", "send_failed"}
       /\ (inj' # inj /\ inj'.out = "written")
            => LET k == ClaimedKeysym(inj'.key)
               IN  inj'.msg = <<4, inj'.down, 0, 0, k \div 16777216,
                                (k \div 65536) % 256, (k \div 256) % 256, k % 256>>
      ]_vars

\* C28, amended: the same for every key whose key symbol is not 0; a key
\* whose key symbol is 0 is not sent.
KeyEventWrittenForEveryKeysym ==
    [][/\ (inj' # inj /\ inj'.ev = "key" /\ is_running /\ sock # NoSock)
            => IF ClaimedKeysym(inj'.key) # 0
               THEN inj'.out \in {"sending", "written", "send_failed"}
               ELSE inj'.out = "no_keysym"
       /\ (inj' # inj /\ inj.out = "sending")
            => (inj'.out \in {"written", "send_failed"} /\ inj'.key = inj.key
                /\ inj'.down = inj.down)
       /\ (inj' # inj /\ inj'.out = "written")
            => LET k == ClaimedKeysym(inj'.key)
               IN  inj'.msg = <<4, inj'.down, 0, 0, k \div 16777216,
                                (k \div 65536) % 256, (k \div 256) % 256, k % 256>>
      ]_vars

FunctionKeyReleaseWritten ==
    /\ inj.ev = "key"
    /\ inj.key = Key_F1 + 1
    /\ inj.down = 0
    /\ inj.out = "written"
    /\ is_running

\* C29: once a connection has been closed (the socket it was opened with is
\* closed) its thread never passes the test of the update loop again: it does
\* not go back from the loop's test to reading a message type.
ClosedConnectionNeverRunsAgain ==
    [][\A t \in Threads :
        (pc[t] = "loop_test" /\ sockState[t] = "closed")
        => pc'[t] # "recv_type"]_vars

\* C30: when a thread enters the update loop (it has written its first
\* FramebufferUpdateRequest; no message written later changes the format), the
\* pixel format in force has 32 bits per pixel: either the thread has written
\* a SetPixelFormat (type 0) after ClientInit, or the default the server
\* announced in ServerInit already has 32 bits per pixel.
RequestedFormatInForce ==
    [][\A t \in Threads :
        (pc[t] = "send_fbreq" /\ pc'[t] = "loop_test")
        => \/ \E i \in 1..Len(nego'[t]) : nego'[t][i] = 0
           \/ bpp[t] = 32]_vars

\* C34: a thread that reads a message type is at a message boundary: it has
\* not left an earlier message at a read timeout with bytes of that message
\* still unread.
TypeByteIsFirstByte ==
    [][\A t \in Threads :
        (pc[t] = "recv_type" /\ pc'[t] # pc[t] /\ last'[t].k = "recv_type")
        => ~desync[t]]_vars

\* C31: the handling of a SetColourMapEntries message reads the padding, the
\* first index, the count and the whole palette data, in this order, and then
\* reaches the loop test (or the transport fails); none of its steps changes
\* the image, the dimensions or the running flag or writes a message, and the
\* thread is at a message boundary when it is done.
ColourMapOnlyConsumed ==
    [][\A t \in Threads :
        (pc[t] \in {"cme_pad", "cme_first", "cme_count", "cme_data"} /\ pc'[t] # pc[t])
        => \/ pc'[t] = "finally" /\ err'[t] = "ConnectionClosed"
           \/ /\ pc'[t] = (CASE pc[t] = "cme_pad" -> "cme_first"
                              [] pc[t] = "cme_first" -> "cme_count"
                              [] pc[t] = "cme_count" -> "cme_data"
                              [] pc[t] = "cme_data" -> "loop_test")
              /\ (pc[t] = "cme_data" /\ RecvLen(t) > 0) => last'[t].v = "palette"
              /\ image' = image
              /\ width' = width
              /\ height' = height
              /\ is_running' = is_running
              /\ wrote' = wrote
              /\ ~desync'[t]
      ]_vars

\* C33: the payload read of a Raw rectangle of w by h pixels ends with the
\* whole payload of w*h pixels (4 bytes each) taken from the transport, or
\* with a transport failure; the pixel loops are then left for the next
\* rectangle header or the end of the message, at the right stream position,
\* wherever the rectangle lies.
RawPayloadConsumed ==
    [][\A t \in Threads :
        /\ (pc[t] = "raw_data" /\ pc'[t] # pc[t])
            => \/ pc'[t] = "finally" /\ err'[t] = "ConnectionClosed"
               \/ pc'[t] = "raw_pixels" /\ dlen'[t] = rect[t].w * rect[t].h
        /\ (pc[t] = "raw_pixels" /\ pc'[t] # pc[t])
            => /\ pc'[t] \in {"rect_hdr", "fbu_done"}
               /\ dlen[t] = rect[t].w * rect[t].h
               /\ ~desync'[t]
      ]_vars

\* C32: a thread that is before the update loop and meets a failure (a read
\* timeout, a transport error in a read or a write, a security type list
\* without type 2, an authentication status other than 0, or any other
\* exception) goes to the finally block without writing; there it has no write
\* under way, and its only step ends the thread with the running flag false
\* and its socket closed, without a write; an ended thread takes no further
\* step, so nothing is retried, read or written.
HandshakeFailureAborts ==
    [][\A t \in Threads :
        /\ (pc[t] \in HandshakePcs /\ pc'[t] # pc[t])
            => /\ (pc[t] = "recv_sectypes" /\ last'[t].k = "recv_sectypes"
                        /\ VncAuth \notin last'[t].v)
                    => err'[t] = "UnsupportedSecurity"
               /\ (pc[t] = "recv_status" /\ last'[t].k = "recv_status"
                        /\ last'[t].v # 0)
                    => err'[t] = "AuthenticationFailed"
               /\ err'[t] # "none"
                    => (pc'[t] = "finally" /\ wrote' = wrote /\ t \notin sending')
               /\ err'[t] = "none" => pc'[t] \in HandshakePcs \cup {"loop_test"}
        /\ pc[t] = "finally"
            => /\ t \notin sending
               /\ pc'[t] # pc[t]
                    => /\ pc'[t] = "dead"
                       /\ wrote'[t] = <<>>
                       /\ sending' = sending
                       /\ ~is_running'
                       /\ sockState'[t] = "closed"
        /\ pc[t] = "dead" => (pc'[t] = "dead" /\ wrote'[t] = <<>>)
      ]_vars

HandshakeFailedAndClosed ==
    \E t \in Threads :
        /\ pc[t] = "dead"
        /\ image.px[<<0, 0>>] = Uninit
        /\ msgs = 0
        /\ ~is_running
        /\ sockState[t] = "closed"
        /\ wrote[t] = <<>>

\* C35: a run of VncConnectionThread that has not ended has emitted no
\* terminal signal and is within the 10 attempts of its loop; a run that has
\* ended has emitted exactly one terminal signal, connection_successful or
\* connection_failed; and every run that has begun ends.
OneTerminalSignal ==
    /\ [](/\ vct.i <= max_retries
          /\ vct.pc # "done" => vct.signals = <<>>
          /\ vct.pc = "done"
                => /\ Len(vct.signals) = 1
                   /\ vct.signals[1] \in {"connection_successful", "connection_failed"})
    /\ (vct.pc = "poll") ~> (vct.pc = "done")

TenthProbeSucceeded ==
    /\ vct.pc = "done"
    /\ vct.i = max_retries - 1
    /\ vct.host_port \in HostPorts
    /\ vct.signals = <<"connection_successful">>

\* C36: whenever scenario_stopped is emitted, active_containers is empty.
StoppedMeansNoContainers ==
    [][(Len(win'.queue) > Len(win.queue)
            /\ win'.queue[Len(win'.queue)] = "scenario_stopped")
        => dm'.active_containers = {}]_vars

\* C37: every start request made while the loop is running is answered by a
\* scenario_started or scenario_stopped of the call that processed it (unless
\* the loop is told to end first).
StartRequestAnswered ==
    \A f \in Files :
        (win.asked = f /\ dm.pc \notin {"created", "ended"})
            ~> (win.asked # f \/ ~dm.is_running \/ dm.pc = "ended")

====
